---- MODULE Spec2Model ----
(***************************************************************************)
(* TOON DB: the collection-keyed store (package db) and the HTTP handlers  *)
(* that drive it.  Strings are sequences of one-character strings, so that *)
(* the composite key "<collection>:<key>", its prefix scans and its split  *)
(* on ":" are computed the way the Go code computes them.                   *)
(***************************************************************************)
EXTENDS Integers, Sequences, FiniteSets, TLC

VARIABLES
    store,      \* the badger keyspace: composite key -> value
    last,       \* the last request served and its response
    apiKey,     \* Handler.apiKey: the key that main configured
    txns        \* the badger transactions in flight: a reader and a writer

vars == <<store, last, apiKey, txns>>

----------------------------------------------------------------------------
(* Bounds and input sets *)

\* at most this many composite keys are stored at once
MaxKeys == 3
\* a restore body carries at most this many records
MaxRecords == 2

\* names as the callers can write them: the empty name, two plain names, and
\* two names holding the separator ("a:" + ":" + "a" = "a" + ":" + ":a")
Names == { <<>>, <<"a">>, <<"b">>, <<"a", ":">>, <<":", "a">> }

\* bodies, as their characters: the empty body and the text "k: v"
Data == { <<>>, <<"k", ":", " ", "v">> }

\* byte value of a character (badger orders keys bytewise)
Ord(ch) ==
    CASE ch = ":" -> 58 [] ch = "a" -> 97 [] ch = "b" -> 98 [] ch = "c" -> 99
      [] ch = "e" -> 101 [] ch = "i" -> 105 [] ch = "l" -> 108 [] ch = "n" -> 110
      [] ch = "o" -> 111 [] ch = "s" -> 115 [] ch = "t" -> 116

----------------------------------------------------------------------------
(* Strings *)

\* bytes.Compare(s, t) < 0
RECURSIVE LexLess(_, _)
LexLess(s, t) ==
    IF s = <<>> THEN t # <<>>
    ELSE IF t = <<>> THEN FALSE
    ELSE IF Head(s) # Head(t) THEN Ord(Head(s)) < Ord(Head(t))
    ELSE LexLess(Tail(s), Tail(t))

\* strings.HasPrefix(s, p)
HasPrefix(s, p) == Len(s) >= Len(p) /\ SubSeq(s, 1, Len(p)) = p

\* strings.Split(s, ":")
RECURSIVE Split(_)
Split(s) ==
    IF \A i \in 1..Len(s) : s[i] # ":" THEN <<s>>
    ELSE LET i == CHOOSE j \in 1..Len(s) :
                      s[j] = ":" /\ \A h \in 1..(j - 1) : s[h] # ":"
         IN  <<SubSeq(s, 1, i - 1)>> \o Split(SubSeq(s, i + 1, Len(s)))

\* the keys of a set in badger's iteration order (ascending bytewise)
RECURSIVE SortedKeys(_)
SortedKeys(S) ==
    IF S = {} THEN <<>>
    ELSE LET m == CHOOSE x \in S : \A y \in S \ {x} : LexLess(x, y)
         IN  <<m>> \o SortedKeys(S \ {m})

----------------------------------------------------------------------------
(* Errors *)

Nil == "nil"
ErrKeyNotFound == "key not found"
ErrEngine == "engine error"

----------------------------------------------------------------------------
(* package db *)

\* fmt.Sprintf("%s:%s", collection, key)
CompositeKey(c, k) == c \o <<":">> \o k

EmptyStore == [x \in {} |-> <<>>]

\* txn.Set on a keyspace
Put(s, key, val) == [x \in DOMAIN s \cup {key} |-> IF x = key THEN val ELSE s[x]]

\* txn.Delete of a set of keys on a keyspace
Remove(s, keys) == [x \in DOMAIN s \ keys |-> s[x]]

\* a Get that takes an empty value for a missing key
GetEmptyIsMissing(s, c, k, readFails) ==
    LET key == CompositeKey(c, k) IN
    IF readFails THEN [data |-> <<>>, err |-> ErrEngine]
    ELSE IF key \notin DOMAIN s \/ s[key] = <<>> THEN [data |-> <<>>, err |-> ErrKeyNotFound]
    ELSE [data |-> s[key], err |-> Nil]

\* Database.Get: the data and the error; readFails is the engine failing the
\* read with an error other than ErrKeyNotFound
Get(s, c, k, readFails) ==
    LET key == CompositeKey(c, k) IN
    IF readFails THEN [data |-> <<>>, err |-> ErrEngine]
    ELSE IF key \notin DOMAIN s THEN [data |-> <<>>, err |-> ErrKeyNotFound]
    ELSE [data |-> s[key], err |-> Nil]

\* Database.Set: one update transaction holding one txn.Set
Set(s, c, k, data, writeFails) ==
    IF writeFails THEN [store |-> s, err |-> ErrEngine]
    ELSE [store |-> Put(s, CompositeKey(c, k), data), err |-> Nil]

\* a Delete that removes every key the composite key is a prefix of
DeleteByPrefix(s, c, k, writeFails) ==
    IF writeFails THEN [store |-> s, err |-> ErrEngine]
    ELSE [store |-> Remove(s, {x \in DOMAIN s : HasPrefix(x, CompositeKey(c, k))}),
          err |-> Nil]

\* Database.Delete: one update transaction holding one txn.Delete (deleting
\* an absent key writes a tombstone and is no error)
Delete(s, c, k, writeFails) ==
    IF writeFails THEN [store |-> s, err |-> ErrEngine]
    ELSE [store |-> Remove(s, {CompositeKey(c, k)}), err |-> Nil]

\* a DeleteCollection that stops after the first key of the prefix
DeleteCollectionFirstOnly(s, c, writeFails) ==
    LET prefix == c \o <<":">>
        found  == SortedKeys({x \in DOMAIN s : HasPrefix(x, prefix)})
    IN  IF writeFails THEN [store |-> s, err |-> ErrEngine]
        ELSE IF found = <<>> THEN [store |-> s, err |-> Nil]
        ELSE [store |-> Remove(s, {found[1]}), err |-> Nil]

\* Database.DeleteCollection: one update transaction that seeks to
\* collection + ":" and deletes every key while the prefix holds
DeleteCollection(s, c, writeFails) ==
    LET prefix == c \o <<":">> IN
    IF writeFails THEN [store |-> s, err |-> ErrEngine]
    ELSE [store |-> Remove(s, {x \in DOMAIN s : HasPrefix(x, prefix)}), err |-> Nil]

\* a GetCollectionKeys that leaves out the key names that hold the separator
GetCollectionKeysPlain(s, c) ==
    LET prefix == c \o <<":">>
        found  == SortedKeys({x \in DOMAIN s : HasPrefix(x, prefix) /\ Len(Split(x)) = 2})
    IN  [i \in 1..Len(found) |-> SubSeq(found[i], Len(c) + 2, Len(found[i]))]

\* Database.GetCollectionKeys: prefix scan, prefix stripped
GetCollectionKeys(s, c) ==
    LET prefix == c \o <<":">>
        found  == SortedKeys({x \in DOMAIN s : HasPrefix(x, prefix)})
    IN  [i \in 1..Len(found) |-> SubSeq(found[i], Len(c) + 2, Len(found[i]))]

\* the loop of Database.GetCollections over the keys in iteration order
RECURSIVE CollectionsScan(_, _)
CollectionsScan(keys, collections) ==
    IF keys = <<>> THEN collections
    ELSE LET parts == Split(Head(keys)) IN
         IF Len(parts) = 2
         THEN LET collection == parts[1]
                  keyName    == parts[2]
                  sofar      == IF collection \in DOMAIN collections
                                THEN collections[collection] ELSE <<>>
              IN  CollectionsScan(Tail(keys),
                                  Put(collections, collection, Append(sofar, keyName)))
         ELSE CollectionsScan(Tail(keys), collections)

\* a GetCollections that also skips the keys with an empty part
GetCollectionsNonEmpty(s) ==
    CollectionsScan(SortedKeys({x \in DOMAIN s : \A i \in 1..Len(Split(x)) : Split(x)[i] # <<>>}),
                    [x \in {} |-> <<>>])

\* Database.GetCollections: collection -> key names, from a full scan
GetCollections(s) == CollectionsScan(SortedKeys(DOMAIN s), [x \in {} |-> <<>>])

\* the loop of Database.Backup over the keys in iteration order
RECURSIVE BackupScan(_, _, _)
BackupScan(s, keys, records) ==
    IF keys = <<>> THEN records
    ELSE LET parts == Split(Head(keys)) IN
         IF Len(parts) = 2
         THEN BackupScan(s, Tail(keys),
                         Append(records, [collection |-> parts[1],
                                          key        |-> parts[2],
                                          data       |-> s[Head(keys)]]))
         ELSE BackupScan(s, Tail(keys), records)

\* a Backup that leaves out the records whose value is empty
BackupSkipsEmpty(s) ==
    BackupScan(s, SortedKeys({x \in DOMAIN s : s[x] # <<>>}), <<>>)

\* Database.Backup: the records of a full scan
Backup(s) == BackupScan(s, SortedKeys(DOMAIN s), <<>>)

\* the loop of Database.Restore inside its transaction: txn.Set per record;
\* the txn.Set of record failAt returns an error (failAt = 0: none does)
RECURSIVE RestoreTxn(_, _, _, _)
RestoreTxn(pending, records, i, failAt) ==
    IF i > Len(records) THEN [pending |-> pending, err |-> Nil]
    ELSE IF i = failAt THEN [pending |-> pending, err |-> ErrEngine]
    ELSE RestoreTxn(Put(pending,
                        CompositeKey(records[i].collection, records[i].key),
                        records[i].data),
                    records, i + 1, failAt)

\* a Restore that commits record by record (one transaction per txn.Set)
RestorePerRecord(s, records, failAt) ==
    LET txn == RestoreTxn(s, records, 1, failAt) IN
    [store |-> txn.pending, err |-> txn.err]

\* a Restore that appends the data of a record to what its key holds
RestoreAppends(s, records, failAt) ==
    LET txn == RestoreTxn(s, records, 1, failAt)
        restored == { CompositeKey(records[i].collection, records[i].key) :
                         i \in 1..Len(records) }
    IN  IF txn.err # Nil THEN [store |-> s, err |-> txn.err]
        ELSE [store |-> [x \in DOMAIN txn.pending |->
                           IF x \in restored /\ x \in DOMAIN s
                           THEN s[x] \o txn.pending[x] ELSE txn.pending[x]],
              err |-> Nil]

\* Database.Restore: db.Update commits the transaction when the function
\* returns nil and discards it when the function returns an error
Restore(s, records, failAt) ==
    LET txn == RestoreTxn(s, records, 1, failAt) IN
    IF txn.err = Nil THEN [store |-> txn.pending, err |-> Nil]
    ELSE [store |-> s, err |-> txn.err]

----------------------------------------------------------------------------
(* package parser: the TOON decoder *)

\* the values of data.Fields: a string, a map of values, a list of values
Str(s) == [str |-> s]
Obj(fields) == [obj |-> fields]
Arr(items) == [arr |-> items]
IsStr(v) == DOMAIN v = {"str"}
IsObj(v) == DOMAIN v = {"obj"}
IsArr(v) == DOMAIN v = {"arr"}

\* unicode.IsSpace, on the characters of the model
IsSpace(ch) == ch \in {" ", "\t", "\n", "\r"}

\* the class \d of the two patterns
IsDigit(ch) == ch \in {"0", "1", "2", "3", "4", "5", "6", "7", "8", "9"}

\* the value of a decimal digit
DigitValue(ch) ==
    CASE ch = "0" -> 0 [] ch = "1" -> 1 [] ch = "2" -> 2 [] ch = "3" -> 3
      [] ch = "4" -> 4 [] ch = "5" -> 5 [] ch = "6" -> 6 [] ch = "7" -> 7
      [] ch = "8" -> 8 [] ch = "9" -> 9

\* strconv.Atoi on a run of digits
RECURSIVE Atoi(_)
Atoi(digits) ==
    IF digits = <<>> THEN 0
    ELSE 10 * Atoi(SubSeq(digits, 1, Len(digits) - 1)) + DigitValue(digits[Len(digits)])

\* strings.TrimSpace(s)
TrimSpace(s) ==
    LET solid == {i \in 1..Len(s) : ~IsSpace(s[i])} IN
    IF solid = {} THEN <<>>
    ELSE SubSeq(s, CHOOSE i \in solid : \A j \in solid : i <= j,
                   CHOOSE i \in solid : \A j \in solid : i >= j)

\* the text left when a leading \s* has taken all it can
TrimLeft(s) ==
    LET solid == {i \in 1..Len(s) : ~IsSpace(s[i])} IN
    IF solid = {} THEN <<>>
    ELSE SubSeq(s, CHOOSE i \in solid : \A j \in solid : i <= j, Len(s))

\* strings.Index(s, ch) + 1 from position from on; 0 when ch is not there
IndexFrom(s, ch, from) ==
    LET at == {i \in from..Len(s) : s[i] = ch} IN
    IF at = {} THEN 0 ELSE CHOOSE i \in at : \A j \in at : i <= j

\* strings.Contains(s, ch)
Contains(s, ch) == IndexFrom(s, ch, 1) # 0

\* strings.Split(s, sep) for a separator of one character
RECURSIVE StringsSplit(_, _)
StringsSplit(s, sep) ==
    LET i == IndexFrom(s, sep, 1) IN
    IF i = 0 THEN <<s>>
    ELSE <<SubSeq(s, 1, i - 1)>> \o StringsSplit(SubSeq(s, i + 1, Len(s)), sep)

\* strings.SplitN(s, ":", 2)
SplitN2(s) ==
    LET i == IndexFrom(s, ":", 1) IN
    IF i = 0 THEN <<s>>
    ELSE <<SubSeq(s, 1, i - 1), SubSeq(s, i + 1, Len(s))>>

\* the tail \s*(.+)$ of both patterns on the text after the colon: it needs
\* one character at least, and the greedy \s* leaves (.+) the text from the
\* first character that is not white space (the last character when all are)
TailGroup(rest) ==
    IF TrimLeft(rest) # <<>> THEN TrimLeft(rest) ELSE <<rest[Len(rest)]>>

\* the position after the run of digits that starts at from
DigitsEnd(line, from) ==
    LET stops == {i \in from..Len(line) : ~IsDigit(line[i])} IN
    IF stops = {} THEN Len(line) + 1 ELSE CHOOSE i \in stops : \A j \in stops : i <= j

\* FindStringSubmatch of ^([^\[]+)\[(\d+)\]:\s*(.+)$
ArrayMatch(line) ==
    LET p == IndexFrom(line, "[", 1)
        q == DigitsEnd(line, p + 1)
    IN  IF /\ p >= 2
           /\ q > p + 1
           /\ q + 2 <= Len(line)
           /\ line[q] = "]"
           /\ line[q + 1] = ":"
        THEN [ok |-> TRUE, key |-> SubSeq(line, 1, p - 1),
              size |-> SubSeq(line, p + 1, q - 1),
              values |-> TailGroup(SubSeq(line, q + 2, Len(line)))]
        ELSE [ok |-> FALSE, key |-> <<>>, size |-> <<>>, values |-> <<>>]

\* FindStringSubmatch of ^([^\[]+)\[(\d+)\]\{([^\}]+)\}:\s*(.+)$
ObjectArrayMatch(line) ==
    LET p == IndexFrom(line, "[", 1)
        q == DigitsEnd(line, p + 1)
        r == IndexFrom(line, "}", q + 2)
    IN  IF /\ p >= 2
           /\ q > p + 1
           /\ q + 1 <= Len(line)
           /\ line[q] = "]"
           /\ line[q + 1] = "{"
           /\ r > q + 2
           /\ r + 2 <= Len(line)
           /\ line[r + 1] = ":"
        THEN [ok |-> TRUE, key |-> SubSeq(line, 1, p - 1),
              size |-> SubSeq(line, p + 1, q - 1),
              fields |-> SubSeq(line, q + 2, r - 1),
              data |-> TailGroup(SubSeq(line, r + 2, Len(line)))]
        ELSE [ok |-> FALSE, key |-> <<>>, size |-> <<>>, fields |-> <<>>, data |-> <<>>]

\* data.Fields[key] = value
SetField(fields, key, value) ==
    [x \in DOMAIN fields \cup {key} |-> IF x = key THEN value ELSE fields[x]]

\* the values of an array line that drops no value over the declared size
ArrayValuesAll(text, size) ==
    LET values == StringsSplit(text, ",") IN
    [i \in 1..Len(values) |-> Str(TrimSpace(values[i]))]

\* the values of an array line: split on ",", trimmed, cut to the declared
\* size
ArrayValues(text, size) ==
    LET values == StringsSplit(text, ",")
        n == IF Len(values) > size THEN size ELSE Len(values)
    IN  [i \in 1..n |-> Str(TrimSpace(values[i]))]

\* the object of one data line of a table, when it has a value per field
RowObject(fields, values) ==
    LET names == {TrimSpace(fields[i]) : i \in 1..Len(fields)} IN
    Obj([f \in names |->
            LET i == CHOOSE j \in 1..Len(fields) :
                        /\ TrimSpace(fields[j]) = f
                        /\ \A h \in (j + 1)..Len(fields) : TrimSpace(fields[h]) # f
            IN  Str(TrimSpace(values[i]))])

\* the objects of the data lines of a table
RECURSIVE RowObjects(_, _)
RowObjects(fields, dataLines) ==
    IF dataLines = <<>> THEN <<>>
    ELSE LET dataLine == TrimSpace(Head(dataLines))
             values == StringsSplit(dataLine, ",")
             rest == RowObjects(fields, Tail(dataLines))
         IN  IF dataLine # <<>> /\ Len(values) = Len(fields)
             THEN <<RowObject(fields, values)>> \o rest
             ELSE rest

\* the objects of a table line, cut to the declared size
TableObjects(fields, data, size) ==
    LET objects == RowObjects(StringsSplit(fields, ","), StringsSplit(data, "\n")) IN
    IF Len(objects) > size THEN SubSeq(objects, 1, size) ELSE objects

\* the state of the loop of ParseToon: data.Fields, the context flags, and
\* the key whose map currentObject points to (<<>> when nil); currentArray
\* is never assigned
ParserStart ==
    [Fields |-> [x \in {} |-> <<>>], inObject |-> FALSE, inArray |-> FALSE,
     currentObject |-> <<>>]

\* one turn of the loop of ParseToon on one line of the input
ParseLine(st, raw) ==
    LET line == TrimSpace(raw)
        arrayMatch == ArrayMatch(line)
        objectArrayMatch == ObjectArrayMatch(line)
    IN  IF line = <<>> \/ HasPrefix(line, <<"#">>) THEN st
        ELSE IF arrayMatch.ok
        THEN [st EXCEPT !.Fields =
                 SetField(st.Fields, arrayMatch.key,
                          Arr(ArrayValues(arrayMatch.values, Atoi(arrayMatch.size))))]
        ELSE IF objectArrayMatch.ok
        THEN [st EXCEPT !.Fields =
                 SetField(st.Fields, objectArrayMatch.key,
                          Arr(TableObjects(objectArrayMatch.fields, objectArrayMatch.data,
                                           Atoi(objectArrayMatch.size))))]
        ELSE IF HasPrefix(line, <<" ", " ">>) /\ (st.inObject \/ st.inArray)
        THEN LET nestedLine == TrimSpace(line)
                 parts == SplitN2(nestedLine)
                 current == st.currentObject[1]
             IN  IF /\ Contains(nestedLine, ":")
                    /\ st.inObject
                    /\ current \in DOMAIN st.Fields
                    /\ IsObj(st.Fields[current])
                 THEN [st EXCEPT !.Fields =
                          SetField(st.Fields, current,
                                   Obj(SetField(st.Fields[current].obj, TrimSpace(parts[1]),
                                                Str(TrimSpace(parts[2])))))]
                 ELSE st
        ELSE IF Contains(line, ":")
        THEN LET parts == SplitN2(line)
                 key == TrimSpace(parts[1])
                 value == TrimSpace(parts[2])
             IN  IF value = <<>>
                 THEN [Fields |-> SetField(st.Fields, key, Obj([x \in {} |-> <<>>])),
                       inObject |-> TRUE, inArray |-> FALSE, currentObject |-> <<key>>]
                 ELSE [Fields |-> SetField(st.Fields, key, Str(value)),
                       inObject |-> FALSE, inArray |-> FALSE, currentObject |-> <<>>]
        ELSE [st EXCEPT !.inObject = FALSE, !.inArray = FALSE, !.currentObject = <<>>]

\* the loop of ParseToon over the lines
RECURSIVE ParseLines(_, _)
ParseLines(st, lines) ==
    IF lines = <<>> THEN st ELSE ParseLines(ParseLine(st, Head(lines)), Tail(lines))

\* a line the decoder has no rule for: not blank, not a comment, no colon
Unrecognised(raw) ==
    LET line == TrimSpace(raw) IN
    line # <<>> /\ ~HasPrefix(line, <<"#">>) /\ ~Contains(line, ":")

\* a ParseToon that rejects the input when it has no rule for a line
ParseToonStrict(toon) ==
    LET lines == StringsSplit(toon, "\n") IN
    IF \E i \in 1..Len(lines) : Unrecognised(lines[i])
    THEN [data |-> [x \in {} |-> <<>>], err |-> "invalid line"]
    ELSE [data |-> ParseLines(ParserStart, lines).Fields, err |-> Nil]

\* Parser.ParseToon: the fields of the text; the error is nil on every path
ParseToon(toon) ==
    [data |-> ParseLines(ParserStart, StringsSplit(toon, "\n")).Fields, err |-> Nil]

----------------------------------------------------------------------------
(* package handlers: one action per route handler *)

\* mux route variables {collection} and {key} each match one non-empty path
\* segment; the requests of the model use these
PathCollections == { <<"a">>, <<"b">>, <<"a", ":">> }
PathKeys == { <<"a">> }

\* db.Record, as decoded from the JSON body of POST /restore; the bodies of
\* the model are built from these records
Records ==
    { [collection |-> <<"a">>, key |-> <<":", "a">>, data |-> <<>>],
      [collection |-> <<"a">>, key |-> <<":", "a">>, data |-> <<"k", ":", " ", "v">>],
      [collection |-> <<"a">>, key |-> <<>>,         data |-> <<"k", ":", " ", "v">>],
      [collection |-> <<"a", ":">>, key |-> <<"a">>, data |-> <<>>] }

\* JSON arrays of records
RecordLists == UNION { [1..n -> Records] : n \in 0..MaxRecords }

None == "none"

\* a served request: the handler, its inputs, the status and the payload of
\* the response; failed is the position of the record that Restore logged as
\* failed (0: none)
Response(op, c, k, body, records, failed, status, out) ==
    [op |-> op, collection |-> c, key |-> k, body |-> body,
     records |-> records, failed |-> failed, status |-> status, out |-> out]

\* main: API_KEY from the environment ("" when unset), the default otherwise
Unset == ""
DefaultKey == "toondb-secure-key"
\* a main that takes API_KEY as it is, with no default
ConfiguredKeyNoDefault(env) == env
ConfiguredKey(env) == IF env = Unset THEN DefaultKey ELSE env

\* no transaction in flight
NoTxns == [reader |-> <<>>, writer |-> <<>>]

\* the server started with API_KEY unset and an empty database
Init ==
    /\ store = EmptyStore
    /\ last = Response("start", <<>>, <<>>, <<>>, <<>>, 0, 0, None)
    /\ apiKey = ConfiguredKey(Unset)
    /\ txns = NoTxns

\* GET /api/{collection}/{key}
GetHandler(c, k, readFails) ==
    LET r == Get(store, c, k, readFails) IN
    /\ last' = IF r.err # Nil
               THEN Response("Get", c, k, <<>>, <<>>, 0, 404, "Key not found")
               ELSE Response("Get", c, k, <<>>, <<>>, 0, 200, r.data)
    /\ UNCHANGED <<store, apiKey, txns>>

\* an UpsertHandler that saves what it has of a body it could not read
UpsertHandlerSavesUnread(c, k, body, readable, writeFails) ==
    LET r == Set(store, c, k, body, writeFails) IN
    /\ ~readable => body = <<>>
    /\ Cardinality(DOMAIN r.store) <= MaxKeys
    /\ store' = r.store
    /\ last' = IF ~readable
               THEN Response("Upsert", c, k, <<>>, <<>>, 0, 400, "Failed to read request body")
               ELSE IF r.err # Nil
               THEN Response("Upsert", c, k, body, <<>>, 0, 500, "Failed to save data")
               ELSE Response("Upsert", c, k, body, <<>>, 0, 200, "Data saved successfully")
    /\ UNCHANGED <<apiKey, txns>>

\* POST /api/{collection}/{key}: the body is read, validated with ParseToon
\* and stored as it was sent
UpsertHandler(c, k, body, readable, writeFails) ==
    LET parsed == ParseToon(body)
        r == Set(store, c, k, body, writeFails)
    IN  /\ ~readable => body = <<>>
        /\ IF ~readable
           THEN /\ store' = store
                /\ last' = Response("Upsert", c, k, <<>>, <<>>, 0, 400,
                                    "Failed to read request body")
           ELSE IF parsed.err # Nil
           THEN /\ store' = store
                /\ last' = Response("Upsert", c, k, body, <<>>, 0, 400, "Invalid TOON format")
           ELSE /\ Cardinality(DOMAIN r.store) <= MaxKeys
                /\ store' = r.store
                /\ last' = IF r.err # Nil
                           THEN Response("Upsert", c, k, body, <<>>, 0, 500, "Failed to save data")
                           ELSE Response("Upsert", c, k, body, <<>>, 0, 200,
                                         "Data saved successfully")
        /\ UNCHANGED <<apiKey, txns>>

\* DELETE /api/{collection}/{key}
DeleteHandler(c, k, writeFails) ==
    LET r == Delete(store, c, k, writeFails) IN
    /\ store' = r.store
    /\ last' = IF r.err # Nil
               THEN Response("Delete", c, k, <<>>, <<>>, 0, 500, "Failed to delete data")
               ELSE Response("Delete", c, k, <<>>, <<>>, 0, 200, "Data deleted successfully")
    /\ UNCHANGED <<apiKey, txns>>

\* GET /api/collections
GetCollectionsHandler(readFails) ==
    /\ last' = IF readFails
               THEN Response("GetCollections", <<>>, <<>>, <<>>, <<>>, 0, 500,
                             "Failed to get collections")
               ELSE Response("GetCollections", <<>>, <<>>, <<>>, <<>>, 0, 200,
                             GetCollections(store))
    /\ UNCHANGED <<store, apiKey, txns>>

\* GET /api/collections/{collection}
GetCollectionKeysHandler(c, readFails) ==
    /\ last' = IF readFails
               THEN Response("GetCollectionKeys", c, <<>>, <<>>, <<>>, 0, 500,
                             "Failed to get collection keys")
               ELSE Response("GetCollectionKeys", c, <<>>, <<>>, <<>>, 0, 200,
                             GetCollectionKeys(store, c))
    /\ UNCHANGED <<store, apiKey, txns>>

\* DELETE /api/collections/{collection}
DeleteCollectionHandler(c, writeFails) ==
    LET r == DeleteCollection(store, c, writeFails) IN
    /\ store' = r.store
    /\ last' = IF r.err # Nil
               THEN Response("DeleteCollection", c, <<>>, <<>>, <<>>, 0, 500,
                             "Failed to delete collection")
               ELSE Response("DeleteCollection", c, <<>>, <<>>, <<>>, 0, 200,
                             "Collection deleted successfully")
    /\ UNCHANGED <<apiKey, txns>>

\* GET /api/backup
BackupHandler(readFails) ==
    /\ last' = IF readFails
               THEN Response("Backup", <<>>, <<>>, <<>>, <<>>, 0, 500,
                             "Failed to create backup")
               ELSE Response("Backup", <<>>, <<>>, <<>>, <<>>, 0, 200, Backup(store))
    /\ UNCHANGED <<store, apiKey, txns>>

\* POST /api/restore: the body is read and decoded as a JSON array of
\* records (decoded is "unreadable", "invalid" or "records"), then restored
RestoreHandler(records, decoded, failAt) ==
    LET r == Restore(store, records, failAt) IN
    /\ failAt <= Len(records)
    /\ decoded # "records" => records = <<>>
    /\ IF decoded # "records"
       THEN /\ store' = store
            /\ last' = Response("Restore", <<>>, <<>>, <<>>, <<>>, 0, 400,
                                IF decoded = "unreadable"
                                THEN "Failed to read request body"
                                ELSE "Invalid backup format")
       ELSE /\ Cardinality(DOMAIN r.store) <= MaxKeys
            /\ store' = r.store
            /\ last' = IF r.err # Nil
                       THEN Response("Restore", <<>>, <<>>, <<>>, records, failAt, 500,
                                     "Failed to restore backup")
                       ELSE Response("Restore", <<>>, <<>>, <<>>, records, 0, 200,
                                     "Backup restored successfully")
    /\ UNCHANGED <<apiKey, txns>>

\* what the handler can get from the body of POST /api/restore
Decodings == { "records", "unreadable", "invalid" }

Next ==
    \/ \E c \in PathCollections, k \in PathKeys, f \in BOOLEAN : GetHandler(c, k, f)
    \/ \E c \in PathCollections, k \in PathKeys, b \in Data, readable, f \in BOOLEAN :
          UpsertHandler(c, k, b, readable, f)
    \/ \E c \in PathCollections, k \in PathKeys, f \in BOOLEAN : DeleteHandler(c, k, f)
    \/ \E f \in BOOLEAN : GetCollectionsHandler(f)
    \/ \E c \in PathCollections, f \in BOOLEAN : GetCollectionKeysHandler(c, f)
    \/ \E c \in PathCollections, f \in BOOLEAN : DeleteCollectionHandler(c, f)
    \/ \E f \in BOOLEAN : BackupHandler(f)
    \/ \E records \in RecordLists, decoded \in Decodings, failAt \in 0..MaxRecords :
          RestoreHandler(records, decoded, failAt)

Spec == Init /\ [][Next]_vars

----------------------------------------------------------------------------
(* package parser: the TOON encoder *)

\* the sequences that hold every element of S once: the orders in which a
\* range over a Go map can visit its keys
Perms(S) ==
    { p \in [1..Cardinality(S) -> S] :
         \A i, j \in 1..Cardinality(S) : i # j => p[i] # p[j] }

\* strings.Join(list, sep)
RECURSIVE StringsJoin(_, _)
StringsJoin(list, sep) ==
    IF list = <<>> THEN <<>>
    ELSE IF Len(list) = 1 THEN list[1]
    ELSE list[1] \o sep \o StringsJoin(Tail(list), sep)

\* the character of a decimal digit
DigitChar(d) ==
    CASE d = 0 -> "0" [] d = 1 -> "1" [] d = 2 -> "2" [] d = 3 -> "3" [] d = 4 -> "4"
      [] d = 5 -> "5" [] d = 6 -> "6" [] d = 7 -> "7" [] d = 8 -> "8" [] d = 9 -> "9"

\* fmt.Sprintf("%d", n)
RECURSIVE Itoa(_)
Itoa(n) == IF n < 10 THEN <<DigitChar(n)>> ELSE Itoa(n \div 10) \o <<DigitChar(n % 10)>>

\* strings.Repeat("  ", indent)
RECURSIVE Repeat(_)
Repeat(indent) == IF indent = 0 THEN <<>> ELSE <<" ", " ">> \o Repeat(indent - 1)

\* fmt.Sprintf("%v", val); the items and cells of the model are strings
FormatV(val) == val.str

\* the texts of one choice from each set of a list of sets, in order
RECURSIVE ConcatAll(_)
ConcatAll(sets) ==
    IF sets = <<>> THEN {<<>>}
    ELSE { h \o t : h \in Head(sets), t \in ConcatAll(Tail(sets)) }

\* Parser.interfaceArrayToString
interfaceArrayToString(array) ==
    StringsJoin([i \in 1..Len(array) |-> FormatV(array[i])], <<",">>)

\* the data lines of a table for one order of the fields
RECURSIVE TableRows(_, _, _)
TableRows(array, fields, indent) ==
    IF array = <<>> THEN <<>>
    ELSE LET item == Head(array)
             values == [i \in 1..Len(fields) |->
                           IF fields[i] \in DOMAIN item.obj
                           THEN FormatV(item.obj[fields[i]]) ELSE <<>>]
             rest == TableRows(Tail(array), fields, indent)
         IN  IF IsObj(item)
             THEN Repeat(indent + 1) \o StringsJoin(values, <<",">>) \o <<"\n">> \o rest
             ELSE rest

\* Parser.arrayToTOON: the texts it can return; the fields of a table come
\* out in the order of a range over a map, which nothing sorts
arrayToTOON(array, key, indent) ==
    IF array = <<>> THEN {<<>>}
    ELSE IF IsObj(array[1]) /\ key # <<>>
    THEN LET fieldSet == UNION {DOMAIN array[i].obj : i \in {j \in 1..Len(array) : IsObj(array[j])}}
         IN  { key \o <<"[">> \o Itoa(Len(array)) \o <<"]", "{">> \o StringsJoin(fields, <<",">>)
                   \o <<"}", ":", "\n">> \o TableRows(array, fields, indent)
               : fields \in Perms(fieldSet) }
    ELSE IF key # <<>>
    THEN { key \o <<"[">> \o Itoa(Len(array)) \o <<"]", ":", " ">> \o interfaceArrayToString(array) }
    ELSE { interfaceArrayToString(array) }

\* Parser.mapToTOON: the texts it can return, one per order in which the
\* range visits the keys; every entry starts with indent, key and ": "
RECURSIVE mapToTOON(_, _)
mapToTOON(data, indent) ==
    LET EntryTexts(key, value) ==
            LET start == Repeat(indent) \o key \o <<":", " ">> IN
            IF IsStr(value) THEN { start \o value.str \o <<"\n">> }
            ELSE IF IsObj(value)
            THEN { start \o <<"\n">> \o t : t \in mapToTOON(value, indent + 1) }
            ELSE { start \o t : t \in arrayToTOON(value.arr, key, indent) }
    IN  IF IsObj(data)
        THEN UNION { ConcatAll([i \in 1..Len(p) |-> EntryTexts(p[i], data.obj[p[i]])])
                     : p \in Perms(DOMAIN data.obj) }
        ELSE IF IsArr(data) THEN arrayToTOON(data.arr, <<>>, indent)
        ELSE {<<>>}

\* Parser.JSONToTOON on the decoded JSON object
JSONToTOON(data) == mapToTOON(Obj(data), 0)

----------------------------------------------------------------------------
(* The decoder and the encoder on bounded inputs *)

\* the largest declared size of an array line
MaxSize == 2
\* the largest number of values of an array
MaxValues == 3
\* the largest number of lines of a text
MaxLines == 3

\* keys of arrays and of the entries of a JSON object
ArrayKeys == { <<"k">>, <<"t", "a", "g", "s">> }

\* the values of array lines as they are written: plain, with white space
\* before, and empty
Values == { <<"x">>, <<" ", "y">>, <<>> }

\* the value lists of array lines that leave text after the colon
ValueLists == UNION { [1..m -> Values] : m \in 1..MaxValues } \ { << <<>> >> }

\* the array line `key[n]: v1,...,vm`
ArrayLine(key, n, values) ==
    key \o <<"[">> \o Itoa(n) \o <<"]", ":", " ">> \o StringsJoin(values, <<",">>)

\* the lines of the syntax of the README and a line without a colon
MetadataLine == <<"m", "e", "t", "a", "d", "a", "t", "a", ":">>
AuthorLine == <<" ", " ", "a", "u", "t", "h", "o", "r", ":", " ", "a", "d", "m", "i", "n">>
TitleLine == <<"t", "i", "t", "l", "e", ":", " ", "x">>
UsersHeader == <<"u", "s", "e", "r", "s", "[", "2", "]", "{", "i", "d", ",", "n", "a", "m", "e", "}", ":">>
AliRow == <<" ", " ", "1", ",", "A", "l", "i">>
SaraRow == <<" ", " ", "2", ",", "S", "a", "r", "a">>
UsersOneLine == <<"u", "s", "e", "r", "s", "[", "2", "]", "{", "i", "d", ",", "n", "a", "m", "e", "}", ":", " ", "1", ",", "A", "l", "i">>
CommentLine == <<"#", " ", "n", "o", "t", "e">>
PlainLine == <<"p", "l", "a", "i", "n">>

Lines == { MetadataLine, AuthorLine, TitleLine, UsersHeader, AliRow, SaraRow,
           UsersOneLine, PlainLine }

\* request bodies: one array line, or up to MaxLines lines
Texts ==
    { ArrayLine(key, n, values) : key \in ArrayKeys, n \in 0..MaxSize, values \in ValueLists }
    \cup { StringsJoin(lines, <<"\n">>) : lines \in UNION { [1..n -> Lines] : n \in 0..MaxLines } }
    \cup { StringsJoin(<<CommentLine, line>>, <<"\n">>) : line \in Lines }

\* JSON values: strings, one-level objects of strings, arrays of strings
Scalars == { <<"x">>, <<"y">> }
FieldNames == { <<"i", "d">>, <<"n", "a", "m", "e">> }
ScalarArrays ==
    { Arr([i \in 1..Len(a) |-> Str(a[i])]) : a \in UNION { [1..n -> Scalars] : n \in 0..MaxValues } }
Objects ==
    { Obj([f \in fs |-> Str(o[f])]) : fs \in SUBSET FieldNames, o \in [FieldNames -> Scalars] }
SimpleValues == { Str(s) : s \in Scalars \cup {<<>>} } \cup Objects \cup ScalarArrays

\* the table of the README as a JSON array
UsersArray ==
    Arr(<< Obj((<<"i", "d">> :> Str(<<"1">>)) @@ (<<"n", "a", "m", "e">> :> Str(<<"A", "l", "i">>))),
           Obj((<<"i", "d">> :> Str(<<"2">>)) @@ (<<"n", "a", "m", "e">> :> Str(<<"S", "a", "r", "a">>))) >>)
UsersKey == <<"u", "s", "e", "r", "s">>

\* JSON objects: up to two entries of simple values, and the object
\* {users: [...]} of the README
SimpleTrees == UNION { [ks -> SimpleValues] : ks \in SUBSET ArrayKeys }
Trees == SimpleTrees \cup { UsersKey :> UsersArray }

\* the input is a text for the decoder or a JSON object for the encoder
ToonInit ==
    /\ store = EmptyStore
    /\ apiKey = ConfiguredKey(Unset)
    /\ txns = NoTxns
    /\ \/ \E text \in Texts : last = Response("text", <<>>, <<>>, text, <<>>, 0, 0, None)
       \/ \E data \in Trees : last = Response("json", <<>>, <<>>, data, <<>>, 0, 0, None)

\* ParseToon on the input text, or on the text that the encoder returned
ParseToonStep ==
    /\ last.op \in {"text", "JSONToTOON"}
    /\ LET toon == IF last.op = "text" THEN last.body ELSE last.out IN
       last' = Response("ParseToon", <<>>, <<>>, toon, <<>>, 0, 0, ParseToon(toon))
    /\ UNCHANGED <<store, apiKey, txns>>

\* JSONToTOON on the input object
JSONToTOONStep ==
    /\ last.op = "json"
    /\ \E toon \in JSONToTOON(last.body) :
          last' = Response("JSONToTOON", <<>>, <<>>, last.body, <<>>, 0, 0, toon)
    /\ UNCHANGED <<store, apiKey, txns>>

\* POST /api/{collection}/{key} with the input text as the body
PostText ==
    /\ last.op = "text"
    /\ \E c \in PathCollections, k \in PathKeys, readable, f \in BOOLEAN :
          UpsertHandler(c, k, last.body, readable, f)

ToonNext == ParseToonStep \/ JSONToTOONStep \/ PostText

ToonSpec == ToonInit /\ [][ToonNext]_vars

----------------------------------------------------------------------------
(* package main: the routes of the /api subrouter *)

\* the fixed path segments of the routes
AuthSegment == <<"a", "u", "t", "h">>
CollectionsSegment == <<"c", "o", "l", "l", "e", "c", "t", "i", "o", "n", "s">>
BackupSegment == <<"b", "a", "c", "k", "u", "p">>
RestoreSegment == <<"r", "e", "s", "t", "o", "r", "e">>

Methods == { "GET", "POST", "DELETE" }

\* collection names of the requests: a plain name and the name that equals
\* a fixed segment
RouteCollections == { <<"a">>, CollectionsSegment }

\* request paths below /api, as their segments
Paths ==
    { <<AuthSegment>>, <<CollectionsSegment>>, <<BackupSegment>>, <<RestoreSegment>>,
      << <<"a">> >> }
    \cup { <<c, k>> : c \in RouteCollections, k \in PathKeys }

\* the route that mux selects: the routes are tried in the order of their
\* registration and the first whose path and method both match wins; a path
\* that matches with another method only is answered 405, no match 404
Route(method, path) ==
    IF path = <<AuthSegment>> /\ method = "GET" THEN "Auth"
    ELSE IF path = <<CollectionsSegment>> /\ method = "GET" THEN "GetCollections"
    ELSE IF Len(path) = 2 /\ path[1] = CollectionsSegment /\ method = "GET"
    THEN "GetCollectionKeys"
    ELSE IF Len(path) = 2 /\ path[1] = CollectionsSegment /\ method = "DELETE"
    THEN "DeleteCollection"
    ELSE IF Len(path) = 2 /\ method = "GET" THEN "Get"
    ELSE IF Len(path) = 2 /\ method = "POST" THEN "Upsert"
    ELSE IF Len(path) = 2 /\ method = "DELETE" THEN "Delete"
    ELSE IF path = <<BackupSegment>> /\ method = "GET" THEN "Backup"
    ELSE IF path = <<RestoreSegment>> /\ method = "POST" THEN "Restore"
    ELSE IF path \in { <<AuthSegment>>, <<CollectionsSegment>>, <<BackupSegment>>,
                       <<RestoreSegment>> }
    THEN "MethodNotAllowed"
    ELSE "NotFound"

\* GET /api/auth
AuthHandler ==
    /\ last' = Response("Auth", <<>>, <<>>, <<>>, <<>>, 0, 200, "Authentication successful")
    /\ UNCHANGED <<store, apiKey, txns>>

\* AuthMiddleware: the request goes on to the handler when its path is "/"
\* or its X-API-Key header ("" when the header is missing) equals the key
AuthMiddleware(isRoot, header) == isRoot \/ header = apiKey

\* AuthMiddleware answering a request that it does not pass on
Unauthorized ==
    /\ last' = Response("Unauthorized", <<>>, <<>>, <<>>, <<>>, 0, 401, "Invalid API key")
    /\ UNCHANGED <<store, apiKey, txns>>

\* mux answering a request that no route takes
NoRoute(route) ==
    /\ last' = Response(route, <<>>, <<>>, <<>>, <<>>, 0,
                        IF route = "NotFound" THEN 404 ELSE 405, None)
    /\ UNCHANGED <<store, apiKey, txns>>

\* GET /: the dashboard page
WebHandler ==
    /\ last' = Response("Web", <<>>, <<>>, <<>>, <<>>, 0, 200, "text/html")
    /\ UNCHANGED <<store, apiKey, txns>>

\* the bodies of POST /api/restore: no record or one
RouteRecordLists == { records \in RecordLists : Len(records) <= 1 }

\* one request to /api: the route, the middleware, the handler
Serve(method, path, header, fails) ==
    LET route == Route(method, path) IN
    \/ /\ route \in {"NotFound", "MethodNotAllowed"}
       /\ NoRoute(route)
    \/ /\ route \notin {"NotFound", "MethodNotAllowed"}
       /\ ~AuthMiddleware(FALSE, header)
       /\ Unauthorized
    \/ /\ AuthMiddleware(FALSE, header)
       /\ \/ route = "Auth" /\ ~fails /\ AuthHandler
          \/ route = "GetCollections" /\ GetCollectionsHandler(fails)
          \/ route = "GetCollectionKeys" /\ GetCollectionKeysHandler(path[2], fails)
          \/ route = "DeleteCollection" /\ DeleteCollectionHandler(path[2], fails)
          \/ route = "Get" /\ GetHandler(path[1], path[2], fails)
          \/ /\ route = "Upsert"
             /\ \E body \in Data, readable \in BOOLEAN :
                   UpsertHandler(path[1], path[2], body, readable, fails)
          \/ route = "Delete" /\ DeleteHandler(path[1], path[2], fails)
          \/ route = "Backup" /\ BackupHandler(fails)
          \/ /\ route = "Restore"
             /\ \E records \in RouteRecordLists, decoded \in Decodings :
                   \E failAt \in (IF fails THEN 1..Len(records) ELSE {0}) :
                      RestoreHandler(records, decoded, failAt)

\* one request to /, which is a route of the main router: the middleware of
\* the /api subrouter is not in its way
ServeRoot(method, header) ==
    IF method = "GET" THEN WebHandler ELSE NoRoute("MethodNotAllowed")

\* the values of API_KEY and of the X-API-Key header ("": unset, missing)
Envs == { Unset, "secret" }
Headers == { "", DefaultKey, "secret" }

\* the server started with any value of API_KEY
RouteInit ==
    /\ store = EmptyStore
    /\ last = Response("start", <<>>, <<>>, <<>>, <<>>, 0, 0, None)
    /\ \E env \in Envs : apiKey = ConfiguredKey(env)
    /\ txns = NoTxns

\* a storage failure is an input of the requests that reach a handler only
RouteNext ==
    \/ \E method \in Methods, path \in Paths, header \in Headers :
          \E fails \in (IF header = apiKey THEN BOOLEAN ELSE {FALSE}) :
             Serve(method, path, header, fails)
    \/ \E method \in Methods, header \in Headers : ServeRoot(method, header)

RouteSpec == RouteInit /\ [][RouteNext]_vars

----------------------------------------------------------------------------
(* package db under concurrent calls: badger transactions in steps *)

\* a read or a drop can overlap this many commits
MaxCommits == 1

\* the records of the concurrent calls: two keys of one collection
ConcCollections == { <<"a">> }
ConcKeys == { <<"a">>, <<"b">> }
ConcRecords == [collection : ConcCollections, key : ConcKeys, data : Data]
ConcRecordLists == UNION { [1..n -> ConcRecords] : n \in 0..MaxRecords }

\* the read calls that scan: their name and their collection argument
Scans ==
    { <<"GetCollectionKeys", c>> : c \in ConcCollections }
    \cup { <<"GetCollections", <<>>>>, <<"Backup", <<>>>> }

\* a transaction that reads the keyspace as it is now, not its snapshot
TxnViewLive(snapshot, live) == live

\* what a transaction reads: the keyspace as it was when it began
TxnView(snapshot, live) == snapshot

\* a txn.Delete that is applied to the keyspace at once
TxnDeleteNow(s, pending, key) == [store |-> Remove(s, {key}), pending |-> pending]

\* txn.Delete inside db.Update: the delete is pending until the commit
TxnDelete(s, pending, key) == [store |-> s, pending |-> pending \cup {key}]

\* the key that the iterator of a scan moves to after lastKey (<<>> before
\* the first), among the keys with the prefix; <<>> when it is not valid
NextKey(view, lastKey, prefix) ==
    LET later == {x \in DOMAIN view : LexLess(lastKey, x) /\ HasPrefix(x, prefix)} IN
    IF later = {} THEN <<>>
    ELSE CHOOSE x \in later : \A y \in later \ {x} : LexLess(x, y)

\* the prefix that a scan seeks
ScanPrefix(op, c) == IF op = "GetCollectionKeys" THEN c \o <<":">> ELSE <<>>

\* what the scan returns from the items that it has read
ScanResult(op, c, seen) ==
    IF op = "GetCollectionKeys" THEN GetCollectionKeys(seen, c)
    ELSE IF op = "GetCollections" THEN GetCollections(seen)
    ELSE Backup(seen)

\* the key names of collection c in a keyspace
KeyNames(s, c) ==
    { SubSeq(x, Len(c) + 2, Len(x)) : x \in {y \in DOMAIN s : HasPrefix(y, c \o <<":">>)} }

Reading == txns.reader # <<>> /\ ~txns.reader[1].done
Dropping == txns.writer # <<>>

\* the scan in flight sees the keyspace change: the instants that it spans,
\* the commits that it overlaps, and whether all of them were drops
Overlapped(newStore, commits, byDrop) ==
    IF ~Reading THEN txns.reader
    ELSE << [txns.reader[1] EXCEPT !.instants = @ \cup {newStore},
                                   !.commits = @ + commits,
                                   !.clean = @ /\ byDrop] >>

CanCommit == IF Reading THEN txns.reader[1].commits < MaxCommits ELSE TRUE

\* db.View begins: the transaction takes its snapshot
ReadBegin(op, c) ==
    /\ ~Reading
    /\ txns' = [txns EXCEPT !.reader =
                  << [op |-> op, collection |-> c, snapshot |-> store, lastKey |-> <<>>,
                      seen |-> EmptyStore, instants |-> {store}, commits |-> 0,
                      dropped |-> IF Dropping
                                  THEN << [collection |-> txns.writer[1].collection,
                                           keys |-> KeyNames(txns.writer[1].snapshot,
                                                             txns.writer[1].collection)] >>
                                  ELSE <<>>,
                      clean |-> TRUE, done |-> FALSE, result |-> <<>>] >>]
    /\ UNCHANGED <<store, last, apiKey>>

\* the iterator of the scan moves to the next item and the loop reads it
ReadStep ==
    /\ Reading
    /\ LET r == txns.reader[1]
           view == TxnView(r.snapshot, store)
           key == NextKey(view, r.lastKey, ScanPrefix(r.op, r.collection))
       IN  /\ key # <<>>
           /\ txns' = [txns EXCEPT !.reader =
                         << [r EXCEPT !.lastKey = key, !.seen = Put(r.seen, key, view[key])] >>]
    /\ UNCHANGED <<store, last, apiKey>>

\* the iterator is not valid any more: the scan returns
ReadEnd ==
    /\ Reading
    /\ LET r == txns.reader[1]
           view == TxnView(r.snapshot, store)
       IN  /\ NextKey(view, r.lastKey, ScanPrefix(r.op, r.collection)) = <<>>
           /\ txns' = [txns EXCEPT !.reader =
                         << [r EXCEPT !.done = TRUE,
                                      !.result = ScanResult(r.op, r.collection, r.seen)] >>]
    /\ UNCHANGED <<store, last, apiKey>>

\* Database.Set: one txn.Set, committed
SetCall(c, k, data) ==
    /\ ~Dropping /\ CanCommit
    /\ store' = Set(store, c, k, data, FALSE).store
    /\ txns' = [txns EXCEPT !.reader = Overlapped(store', 1, FALSE)]
    /\ UNCHANGED <<last, apiKey>>

\* Database.Delete: one txn.Delete, committed
DeleteCall(c, k) ==
    /\ ~Dropping /\ CanCommit
    /\ store' = Delete(store, c, k, FALSE).store
    /\ txns' = [txns EXCEPT !.reader = Overlapped(store', 1, FALSE)]
    /\ UNCHANGED <<last, apiKey>>

\* Database.Restore: the txn.Set of every record, committed together
RestoreCall(records) ==
    /\ ~Dropping /\ CanCommit
    /\ store' = Restore(store, records, 0).store
    /\ txns' = [txns EXCEPT !.reader = Overlapped(store', 1, FALSE)]
    /\ UNCHANGED <<last, apiKey>>

\* Database.DeleteCollection: db.Update begins
DropBegin(c) ==
    /\ ~Dropping
    /\ txns' = [txns EXCEPT
                  !.writer = << [collection |-> c, snapshot |-> store, lastKey |-> <<>>,
                                 pending |-> {}] >>,
                  !.reader = IF ~Reading THEN @
                             ELSE IF @[1].dropped = <<>>
                             THEN << [@[1] EXCEPT !.dropped =
                                        << [collection |-> c, keys |-> KeyNames(store, c)] >>] >>
                             ELSE << [@[1] EXCEPT !.clean = FALSE] >>]
    /\ UNCHANGED <<store, last, apiKey>>

\* the loop of DeleteCollection: the iterator moves on and the key is deleted
DropStep ==
    /\ Dropping
    /\ LET w == txns.writer[1]
           view == TxnView(w.snapshot, store)
           key == NextKey(view, w.lastKey, w.collection \o <<":">>)
           r == TxnDelete(store, w.pending, key)
       IN  /\ key # <<>>
           /\ store' = r.store
           /\ txns' = [txns EXCEPT
                         !.writer = << [w EXCEPT !.lastKey = key, !.pending = r.pending] >>,
                         !.reader = IF r.store = store THEN @ ELSE Overlapped(r.store, 0, TRUE)]
    /\ UNCHANGED <<last, apiKey>>

\* the loop of DeleteCollection is over: db.Update commits the deletes
DropCommit ==
    /\ Dropping /\ CanCommit
    /\ LET w == txns.writer[1]
           view == TxnView(w.snapshot, store)
       IN  /\ NextKey(view, w.lastKey, w.collection \o <<":">>) = <<>>
           /\ store' = Remove(store, w.pending)
           /\ txns' = [txns EXCEPT !.writer = <<>>,
                                   !.reader = Overlapped(store', 1, TRUE)]
    /\ UNCHANGED <<last, apiKey>>

ConcNext ==
    \/ \E scan \in Scans : ReadBegin(scan[1], scan[2])
    \/ ReadStep
    \/ ReadEnd
    \/ \E c \in ConcCollections, k \in ConcKeys, data \in Data : SetCall(c, k, data)
    \/ \E c \in ConcCollections, k \in ConcKeys : DeleteCall(c, k)
    \/ \E records \in ConcRecordLists : RestoreCall(records)
    \/ \E c \in ConcCollections : DropBegin(c)
    \/ DropStep
    \/ DropCommit

ConcSpec == Init /\ [][ConcNext]_vars

----------------------------------------------------------------------------
(* package db: Get, Set and Delete as transactions among concurrent writes *)

ErrConflict == "Transaction Conflict. Please retry"

\* a commit that fails when a key that the transaction wrote has been
\* committed by another transaction since it began
HasConflictOnWrites(reads, writes, committed) == writes \cap committed # {}

\* the check of a commit in badger: the transaction fails when a key that
\* it read has been committed by another transaction since it began
HasConflict(reads, writes, committed) == reads \cap committed # {}

\* what the function of Database.Set does in its transaction: it reads no
\* key and sets one
SetTxn(c, k) == [reads |-> {}, writes |-> {CompositeKey(c, k)}]

Getting == txns.reader # <<>> /\ ~txns.reader[1].done
Setting == txns.writer # <<>> /\ ~txns.writer[1].done

\* the transactions in flight see a commit of other callers: the Get one
\* commit more, the Set the keys that it committed
Committed(keys, bySet) ==
    [txns EXCEPT
       !.reader = IF Getting THEN << [@[1] EXCEPT !.commits = @ + 1] >> ELSE @,
       !.writer = IF Setting
                  THEN << [@[1] EXCEPT !.commits = @ + 1,
                                       !.committed = @ \cup keys,
                                       !.sets = @ \cup (IF bySet THEN keys ELSE {})] >>
                  ELSE @]

\* no transaction in flight has overlapped MaxCommits commits yet
MayCommit ==
    /\ IF Getting THEN txns.reader[1].commits < MaxCommits ELSE TRUE
    /\ IF Setting THEN txns.writer[1].commits < MaxCommits ELSE TRUE

\* the data that Set and Restore have written, by composite key
WrittenBy(records) ==
    { <<CompositeKey(records[i].collection, records[i].key), records[i].data>> :
         i \in 1..Len(records) }

\* Database.Get: db.View begins
GetBegin(c, k) ==
    /\ ~Getting
    /\ txns' = [txns EXCEPT !.reader =
                  << [collection |-> c, key |-> k, snapshot |-> store, commits |-> 0,
                      done |-> FALSE, result |-> [data |-> <<>>, err |-> ErrKeyNotFound]] >>]
    /\ UNCHANGED <<store, last, apiKey>>

\* Database.Get: txn.Get and item.Value in the view, and the return
GetEnd ==
    /\ Getting
    /\ LET r == txns.reader[1] IN
       txns' = [txns EXCEPT !.reader =
                  << [r EXCEPT !.done = TRUE, !.snapshot = EmptyStore,
                               !.result = Get(TxnView(r.snapshot, store),
                                              r.collection, r.key, FALSE)] >>]
    /\ UNCHANGED <<store, last, apiKey>>

\* Database.Set: db.Update begins and the function calls txn.Set
PutBegin(c, k, data) ==
    /\ ~Setting
    /\ txns' = [txns EXCEPT !.writer =
                  << [collection |-> c, key |-> k, data |-> data, commits |-> 0,
                      committed |-> {}, sets |-> {}, done |-> FALSE, err |-> Nil] >>]
    /\ UNCHANGED <<store, last, apiKey>>

\* Database.Set: db.Update commits the transaction, or returns the conflict
PutCommit ==
    /\ Setting
    /\ IF Getting THEN txns.reader[1].commits < MaxCommits ELSE TRUE
    /\ LET w == txns.writer[1]
           txn == SetTxn(w.collection, w.key)
           conflict == HasConflict(txn.reads, txn.writes, w.committed)
           r == Set(store, w.collection, w.key, w.data, FALSE)
       IN  /\ store' = IF conflict THEN store ELSE r.store
           /\ txns' = [txns EXCEPT
                         !.reader = IF Getting /\ ~conflict
                                    THEN << [@[1] EXCEPT !.commits = @ + 1] >> ELSE @,
                         !.writer = << [w EXCEPT !.done = TRUE,
                                                 !.err = IF conflict THEN ErrConflict
                                                         ELSE r.err] >>,
                         !.written = IF conflict THEN @
                                     ELSE @ \cup {<<CompositeKey(w.collection, w.key), w.data>>}]
    /\ UNCHANGED <<last, apiKey>>

\* a Set of another caller, from its begin to its commit
ConcurrentSet(c, k, data) ==
    /\ MayCommit
    /\ store' = Set(store, c, k, data, FALSE).store
    /\ txns' = [Committed({CompositeKey(c, k)}, TRUE) EXCEPT
                  !.written = @ \cup {<<CompositeKey(c, k), data>>}]
    /\ UNCHANGED <<last, apiKey>>

\* a Delete of another caller, from its begin to its commit
ConcurrentDelete(c, k) ==
    /\ MayCommit
    /\ store' = Delete(store, c, k, FALSE).store
    /\ txns' = Committed({CompositeKey(c, k)}, FALSE)
    /\ UNCHANGED <<last, apiKey>>

\* a Restore of another caller, from its begin to its commit
ConcurrentRestore(records) ==
    /\ MayCommit
    /\ store' = Restore(store, records, 0).store
    /\ txns' = [Committed({ w[1] : w \in WrittenBy(records) }, FALSE) EXCEPT
                  !.written = @ \cup WrittenBy(records)]
    /\ UNCHANGED <<last, apiKey>>

\* a DeleteCollection of another caller, from its begin to its commit
ConcurrentDrop(c) ==
    /\ MayCommit
    /\ store' = DeleteCollection(store, c, FALSE).store
    /\ txns' = Committed(DOMAIN store \ DOMAIN store', FALSE)
    /\ UNCHANGED <<last, apiKey>>

\* an empty database, no call in flight and nothing written yet
AtomInit ==
    /\ store = EmptyStore
    /\ last = Response("start", <<>>, <<>>, <<>>, <<>>, 0, 0, None)
    /\ apiKey = ConfiguredKey(Unset)
    /\ txns = [reader |-> <<>>, writer |-> <<>>, written |-> {}]

AtomNext ==
    \/ \E c \in ConcCollections, k \in ConcKeys : GetBegin(c, k)
    \/ GetEnd
    \/ \E c \in ConcCollections, k \in ConcKeys, data \in Data : PutBegin(c, k, data)
    \/ PutCommit
    \/ \E c \in ConcCollections, k \in ConcKeys, data \in Data : ConcurrentSet(c, k, data)
    \/ \E c \in ConcCollections, k \in ConcKeys : ConcurrentDelete(c, k)
    \/ \E record \in ConcRecords : ConcurrentRestore(<<record>>)
    \/ \E c \in ConcCollections : ConcurrentDrop(c)

AtomSpec == AtomInit /\ [][AtomNext]_vars

----------------------------------------------------------------------------
(* Properties *)

Ok(data) == [data |-> data, err |-> Nil]
NotFound == [data |-> <<>>, err |-> ErrKeyNotFound]

HasSep(name) == \E i \in 1..Len(name) : name[i] = ":"

\* C1: for every collection, key and data (the empty string included), Set
\* returns no error unless the engine fails the write, and a Get of the same
\* (collection, key) right after it returns exactly that data with no error;
\* the same holds of the record a POST has just saved.
C1_SetThenGet ==
    /\ \A c \in Names, k \in Names, d \in Data :
          LET r == Set(store, c, k, d, FALSE) IN
          r.err = Nil /\ Get(r.store, c, k, FALSE) = Ok(d)
    /\ (last.op = "Upsert" /\ last.status = 200)
          => Get(store, last.collection, last.key, FALSE) = Ok(last.body)

\* a POST has just saved an empty body under a collection name with a separator
C1_Witness ==
    /\ last.op = "Upsert" /\ last.status = 200
    /\ last.body = <<>> /\ HasSep(last.collection)
    /\ Cardinality(DOMAIN store) > 1

\* C4: Delete of a key that is not stored returns no error and leaves the
\* whole store unchanged, and a second Delete of the same key leaves the
\* state the first one left.
C4_DeleteIdempotent ==
    /\ \A c \in Names, k \in Names :
          LET r == Delete(store, c, k, FALSE) IN
          /\ r.err = Nil
          /\ CompositeKey(c, k) \notin DOMAIN store => r.store = store
          /\ Delete(r.store, c, k, FALSE) = r
    /\ (last.op = "Delete" /\ last.status = 200)
          => Delete(store, last.collection, last.key, FALSE) = [store |-> store, err |-> Nil]

\* a DELETE has been served, its key is now absent, other records remain
C4_Witness ==
    /\ last.op = "Delete" /\ last.status = 200
    /\ CompositeKey(last.collection, last.key) \notin DOMAIN store
    /\ Cardinality(DOMAIN store) > 1

\* C5: after DeleteCollection(c) returned successfully, ListKeys(c) is empty
\* and ListCollections() has no entry for c.
C5_DropEmptiesCollection ==
    /\ \A c \in Names :
          LET r == DeleteCollection(store, c, FALSE) IN
          /\ r.err = Nil
          /\ GetCollectionKeys(r.store, c) = <<>>
          /\ c \notin DOMAIN GetCollections(r.store)
    /\ (last.op = "DeleteCollection" /\ last.status = 200)
          => /\ GetCollectionKeys(store, last.collection) = <<>>
             /\ last.collection \notin DOMAIN GetCollections(store)

\* a collection has just been dropped while another collection is still listed
C5_Witness ==
    /\ last.op = "DeleteCollection" /\ last.status = 200
    /\ DOMAIN GetCollections(store) # {}

\* C9: Backup() of any reachable store, restored into an empty store, gives
\* a store whose ListCollections() equals that of the original: the same
\* collections, the same keys for each, in the same order.
C9_BackupRestoreListing ==
    /\ LET r == Restore(EmptyStore, Backup(store), 0) IN
          r.err = Nil /\ GetCollections(r.store) = GetCollections(store)
    /\ (last.op = "Backup" /\ last.status = 200)
          => GetCollections(Restore(EmptyStore, last.out, 0).store) = GetCollections(store)

\* a backup has been served of a store with two collections listed, one of
\* them with two keys
C9_Witness ==
    /\ last.op = "Backup" /\ last.status = 200
    /\ Cardinality(DOMAIN GetCollections(store)) = 2
    /\ \E c \in DOMAIN GetCollections(store) : Len(GetCollections(store)[c]) = 2

\* the step just taken wrote a record for (c, k): a POST of (c, k) that was
\* saved, or a restore that succeeded with a record for (c, k)
Wrote(c, k) ==
    \/ /\ last'.op = "Upsert" /\ last'.status = 200
       /\ last'.collection = c /\ last'.key = k
    \/ /\ last'.op = "Restore" /\ last'.status = 200
       /\ \E i \in 1..Len(last'.records) :
             last'.records[i].collection = c /\ last'.records[i].key = k

\* the data the step just taken wrote for (c, k): the body of the POST, or
\* the data of the last record for (c, k) in the restored list
WrittenData(c, k) ==
    IF last'.op = "Upsert" THEN last'.body
    ELSE LET recs == last'.records
             i == CHOOSE j \in 1..Len(recs) :
                     /\ recs[j].collection = c /\ recs[j].key = k
                     /\ \A h \in (j + 1)..Len(recs) :
                           ~(recs[h].collection = c /\ recs[h].key = k)
         IN  recs[i].data

\* the step just taken removed (c, k): a Delete of (c, k) or a drop of c
Removed(c, k) ==
    \/ /\ last'.op = "Delete" /\ last'.status = 200
       /\ last'.collection = c /\ last'.key = k
    \/ /\ last'.op = "DeleteCollection" /\ last'.status = 200
       /\ last'.collection = c

\* C2: Get(c, k) returns the data of the most recent Set or Restore record
\* for (c, k) that no Delete(c, k) or DropCollection(c) has removed since:
\* a write of (c, k) always takes effect, whether or not the key exists, and
\* no other request changes what Get(c, k) returns.
C2_SetIsUpsert ==
    [][\A c \in Names, k \in Names :
          /\ Wrote(c, k) => Get(store', c, k, FALSE) = Ok(WrittenData(c, k))
          /\ (~Wrote(c, k) /\ ~Removed(c, k))
                => Get(store', c, k, FALSE) = Get(store, c, k, FALSE)]_vars

\* C3: Get(c, k) is not-found, with empty data, exactly when no record is
\* stored under (c, k): it is not-found at the start, it becomes found only
\* by a write of (c, k), it is not-found after Delete(c, k) and after
\* DropCollection(c), and it becomes not-found only by those.
C3_NotFoundIffAbsent ==
    [][\A c \in Names, k \in Names :
          LET before == Get(store, c, k, FALSE)
              after  == Get(store', c, k, FALSE)
          IN  /\ after.err \in {Nil, ErrKeyNotFound}
              /\ after.err = ErrKeyNotFound => after.data = <<>>
              /\ Removed(c, k) => after = NotFound
              /\ (before.err = ErrKeyNotFound /\ after.err = Nil) => Wrote(c, k)
              /\ (before.err = Nil /\ after.err = ErrKeyNotFound) => Removed(c, k)]_vars

\* some key is stored under collection c
HasKey(s, c) == \E x \in DOMAIN s : HasPrefix(x, c \o <<":">>)

\* C6: ListCollections() contains c if and only if at least one key is stored
\* under c, and it never maps a collection to an empty key list.
C6_CollectionIffKey ==
    LET collections == GetCollections(store) IN
    /\ \A c \in Names : c \in DOMAIN collections <=> HasKey(store, c)
    /\ \A c \in DOMAIN collections : collections[c] # <<>>

\* C7: no request stores a record whose collection name or key name holds
\* the separator, so no stored composite key is the key of two distinct
\* (collection, key) pairs.
C7_SeparatorRejected ==
    /\ (last.op = "Upsert" /\ last.status = 200)
          => ~HasSep(last.collection) /\ ~HasSep(last.key)
    /\ (last.op = "Restore" /\ last.status = 200)
          => \A i \in 1..Len(last.records) :
                ~HasSep(last.records[i].collection) /\ ~HasSep(last.records[i].key)
    /\ \A c1 \in Names, k1 \in Names, c2 \in Names, k2 \in Names :
          (CompositeKey(c1, k1) \in DOMAIN store /\ CompositeKey(c1, k1) = CompositeKey(c2, k2))
             => <<c1, k1>> = <<c2, k2>>

\* C8: Backup() has exactly one record for every stored composite key: for
\* every (c, k) on which Get succeeds, a record (c, k, data) with the data
\* Get returns, and no stored key is left out.
C8_BackupComplete ==
    LET records == Backup(store) IN
    /\ Len(records) = Cardinality(DOMAIN store)
    /\ \A x \in DOMAIN store :
          \E i \in 1..Len(records) :
             /\ CompositeKey(records[i].collection, records[i].key) = x
             /\ records[i].data = store[x]
    /\ \A c \in Names, k \in Names :
          Get(store, c, k, FALSE).err = Nil
             => \E i \in 1..Len(records) :
                   records[i] = [collection |-> c, key |-> k,
                                 data |-> Get(store, c, k, FALSE).data]

\* the data of the last record for the pair of record j among records 1..n
LastData(records, j, n) ==
    LET i == CHOOSE h \in j..n :
                /\ records[h].collection = records[j].collection
                /\ records[h].key = records[j].key
                /\ \A g \in (h + 1)..n :
                      ~(/\ records[g].collection = records[j].collection
                        /\ records[g].key = records[j].key)
    IN  records[i].data

\* C10 as stated: when Restore fails on the record at position i, the records
\* before it have been applied and stay committed: a later Get returns them.
C10_PrefixCommitted ==
    (last.op = "Restore" /\ last.status = 500)
       => \A j \in 1..(last.failed - 1) :
             Get(store, last.records[j].collection, last.records[j].key, FALSE)
                = Ok(LastData(last.records, j, last.failed - 1))

\* C10 amended: when Restore fails on the record at position i it returns
\* that error and nothing of the list is applied: the transaction is
\* discarded and the store is as it was before the call.
C10_FailedRestoreAppliesNothing ==
    [][(last'.op = "Restore" /\ last'.status = 500)
          => /\ store' = store
             /\ last'.failed \in 1..Len(last'.records)
             /\ Restore(store, last'.records, last'.failed) = [store |-> store, err |-> ErrEngine]]_vars

\* a restore has failed on its second record, and the record before it is
\* not in the store
C10_Witness ==
    /\ last.op = "Restore" /\ last.status = 500 /\ last.failed = 2
    /\ CompositeKey(last.records[1].collection, last.records[1].key) \notin DOMAIN store
    /\ store # EmptyStore

\* the restored list has a record for (c, k)
InRecords(records, c, k) ==
    \E i \in 1..Len(records) : records[i].collection = c /\ records[i].key = k

\* C11: Restore merges: every (c, k) that has no record in the list keeps
\* what Get(c, k) returned before the restore, and every (c, k) that has one
\* is overwritten with the record's data.
C11_RestoreMerges ==
    [][(last'.op = "Restore" /\ last'.status = 200)
          => \A c \in Names, k \in Names :
                IF InRecords(last'.records, c, k)
                THEN Get(store', c, k, FALSE) = Ok(WrittenData(c, k))
                ELSE Get(store', c, k, FALSE) = Get(store, c, k, FALSE)]_vars

\* the number of separators in a composite key
SepCount(x) == Cardinality({i \in 1..Len(x) : x[i] = ":"})

\* ListCollections() has an entry for the stored composite key x
Listed(s, x) ==
    LET collections == GetCollections(s) IN
    \E c \in DOMAIN collections : \E i \in 1..Len(collections[c]) :
       CompositeKey(c, collections[c][i]) = x

\* C12 as stated: a stored composite key is listed if and only if it splits
\* on ":" into exactly two parts that are both non-empty.
C12_ListedIffTwoNonEmptyParts ==
    \A x \in DOMAIN store :
       Listed(store, x) <=> (SepCount(x) = 1 /\ Head(x) # ":" /\ x[Len(x)] # ":")

\* C12 amended: a stored composite key is listed if and only if it splits on
\* ":" into exactly two parts, empty or not; keys with more separators are
\* skipped.
C12_ListedIffTwoParts ==
    \A x \in DOMAIN store : Listed(store, x) <=> SepCount(x) = 1

\* the listing has been served of a store that holds a key with an empty key
\* part and a key with two separators
C12_Witness ==
    /\ last.op = "GetCollections" /\ last.status = 200
    /\ \E x \in DOMAIN store : SepCount(x) = 1 /\ x[Len(x)] = ":"
    /\ \E x \in DOMAIN store : SepCount(x) = 2

\* the text of lines, one per line
TextOf(lines) == StringsJoin(lines, <<"\n">>)

C14_NestedFolded ==
    (last.op = "ParseToon" /\ last.body = TextOf(<<MetadataLine, AuthorLine>>)) =>
       last.out.data = (<<"m", "e", "t", "a", "d", "a", "t", "a">> :> Obj(<<"a", "u", "t", "h", "o", "r">> :> Str(<<"a", "d", "m", "i", "n">>)))

\* C15: the text `users[2]{id,name}:` followed by the rows `  1,Ali` and
\* `  2,Sara` decodes under key users to the two records {id:1,name:Ali}
\* and {id:2,name:Sara}.
C15_TableDecoded ==
    (last.op = "ParseToon" /\ last.body = TextOf(<<UsersHeader, AliRow, SaraRow>>)) =>
       /\ UsersKey \in DOMAIN last.out.data
       /\ last.out.data[UsersKey] = UsersArray

\* C16: encoding {users: [{id:"1",name:"Ali"},{id:"2",name:"Sara"}]} gives
\* exactly the lines `users[2]{id,name}:`, `  1,Ali`, `  2,Sara`, each ended
\* by a newline, the fields sorted and nothing before `users[2]`.
C16_TableEncoded ==
    (last.op = "JSONToTOON" /\ last.body = (UsersKey :> UsersArray)) =>
       last.out = UsersHeader \o <<"\n">> \o AliRow \o <<"\n">> \o SaraRow \o <<"\n">>

\* C17: the encoder renders an entry whose value is a non-empty array of
\* scalars [v1..vn] as the single line `key[n]: v1,...,vn`, which starts
\* with the key.
C17_ScalarArrayLine ==
    last.op = "JSONToTOON" =>
       \A key \in DOMAIN last.body :
          (IsArr(last.body[key]) /\ last.body[key] \in ScalarArrays /\ last.body[key].arr # <<>>) =>
             \E i \in 1..Len(StringsSplit(last.out, "\n")) :
                StringsSplit(last.out, "\n")[i] =
                   ArrayLine(key, Len(last.body[key].arr),
                             [j \in 1..Len(last.body[key].arr) |-> last.body[key].arr[j].str])

\* C18: round trip: decoding the text that the encoder returns for an
\* object of strings, one-level objects of strings and arrays of strings
\* gives the object back.
C18_RoundTrip ==
    [][(last.op = "JSONToTOON" /\ last.body \in SimpleTrees /\ last'.op = "ParseToon")
          => last'.out.data = last.body]_vars

\* C19: the decoder is total: ParseToon returns a nil error for every text,
\* so POST /{collection}/{key} never answers 400 "Invalid TOON format", and
\* a body that is saved is stored as it was sent.
C19_DecoderTotal ==
    /\ last.op = "ParseToon" => last.out.err = Nil
    /\ last.op = "Upsert" =>
          /\ last.out # "Invalid TOON format"
          /\ last.status = 200 =>
                /\ CompositeKey(last.collection, last.key) \in DOMAIN store
                /\ store[CompositeKey(last.collection, last.key)] = last.body

\* a body with a line the decoder has no rule for has been posted and saved
C19_Witness ==
    /\ last.op = "Upsert" /\ last.status = 200
    /\ \E i \in 1..Len(StringsSplit(last.body, "\n")) :
          Unrecognised(StringsSplit(last.body, "\n")[i])

\* C20: for every collection name c, also one that equals the fixed segment
\* `collections`, an authorized POST /api/{c}/{k} with body b followed by an
\* authorized GET /api/{c}/{k} is answered by Get on the same record, with
\* status 200 and exactly b.
C20_PostThenGet ==
    [][(/\ last.op = "Upsert" /\ last.status = 200
        /\ last.collection \in RouteCollections
        /\ Serve("GET", <<last.collection, last.key>>, apiKey, FALSE))
          => (last'.op = "Get" /\ last'.status = 200 /\ last'.out = last.body)]_vars

\* the request (method, path) is taken by a route of /api
Routed(method, path) == Route(method, path) \notin {"NotFound", "MethodNotAllowed"}

\* C21: for every collection name c and key name k, an authorized
\* DELETE /api/{c}/{k} is answered by Delete on the record (c, k): it removes
\* at most that record and leaves every other record as it was.
C21_DeleteOneRecord ==
    [][\A c \in RouteCollections, k \in PathKeys :
          Serve("DELETE", <<c, k>>, apiKey, FALSE)
             => /\ last'.op = "Delete" /\ last'.collection = c /\ last'.key = k
                /\ \A x \in DOMAIN store \ {CompositeKey(c, k)} :
                      x \in DOMAIN store' /\ store'[x] = store[x]]_vars

\* C22: authentication is mandatory everywhere: every request to a route of
\* /api and every request for the dashboard page at / is answered 401 unless
\* its X-API-Key header equals the configured key.
C22_AuthEverywhere ==
    [][\A header \in Headers :
          (/\ header # apiKey
           /\ \/ ServeRoot("GET", header)
              \/ \E method \in Methods, path \in Paths, fails \in BOOLEAN :
                    Routed(method, path) /\ Serve(method, path, header, fails))
             => last'.status = 401]_vars

\* C28: a request to a route of /api whose X-API-Key header is missing or is
\* not the configured key reaches no handler: it is answered 401 and the
\* store is unchanged; the configured key is never empty, so a request
\* without the header is never let through.
C28_NoHandlerWithoutKey ==
    [][\A header \in Headers, method \in Methods, path \in Paths, fails \in BOOLEAN :
          (/\ header = "" \/ header # apiKey
           /\ Routed(method, path)
           /\ Serve(method, path, header, fails))
             => /\ last'.op = "Unauthorized" /\ last'.status = 401
                /\ store' = store]_vars

\* a request was turned away with 401 by a server that runs with the default
\* key and has records stored
C28_Witness ==
    /\ last.op = "Unauthorized" /\ last.status = 401
    /\ apiKey = DefaultKey
    /\ DOMAIN store # {}

\* the names that a path segment can carry: mux matches one segment or more
\* characters other than "/"
HttpNames == Names \ {<<>>}

\* C25: every store operation changes its target only: Set(c, k, .) and
\* Delete(c, k) leave Get(c2, k2) as it was for every other pair, and
\* DropCollection(c) leaves Get(c2, k2) as it was for every other collection
\* c2, for all names that a request path can carry.
C25_OnlyTargetChanges ==
    [][\A c2 \in HttpNames, k2 \in HttpNames :
          (\/ /\ last'.op \in {"Upsert", "Delete"}
              /\ <<c2, k2>> # <<last'.collection, last'.key>>
           \/ /\ last'.op = "DeleteCollection"
              /\ c2 # last'.collection)
             => Get(store', c2, k2, FALSE) = Get(store, c2, k2, FALSE)]_vars

\* C26: GET /api/{c}/{k} answers 404 only when the key is absent; a failure
\* of the engine on a key that is stored is answered with a 500-class status.
C26_NotFoundOnlyWhenAbsent ==
    (last.op = "Get" /\ last.status = 404)
       => CompositeKey(last.collection, last.key) \notin DOMAIN store

\* C27: a write request that is answered with a 4xx status has changed
\* nothing in the store: a POST whose body cannot be read or is rejected
\* by the decoder, and a restore whose body is no JSON list of records, are
\* answered 400 before Set or Restore is called.
C27_RejectedWriteChangesNothing ==
    [][(last'.op \in {"Upsert", "Restore"} /\ last'.status \in 400..499)
          => (last'.status = 400 /\ store' = store)]_vars

\* a POST with an unreadable body was answered 400 on a key that is stored
C27_Witness ==
    /\ last.op = "Upsert" /\ last.status = 400
    /\ CompositeKey(last.collection, last.key) \in DOMAIN store
    /\ store[CompositeKey(last.collection, last.key)] # <<>>

\* the key names that Get can be asked for: the names of the model and every
\* tail of a stored composite key
KeyUniverse ==
    Names \cup UNION { { SubSeq(x, i, Len(x)) : i \in 1..(Len(x) + 1) } : x \in DOMAIN store }

\* C29: in every reachable state and for every collection c, ListKeys(c)
\* holds exactly the key names k for which Get(c, k) succeeds, each once, in
\* ascending byte order, key names with ":" and the empty key name included.
C29_ListKeysMatchesGet ==
    \A c \in Names :
       LET keys == GetCollectionKeys(store, c) IN
       /\ \A i \in 1..Len(keys) : Get(store, c, keys[i], FALSE).err = Nil
       /\ \A k \in KeyUniverse :
             Get(store, c, k, FALSE).err = Nil => \E i \in 1..Len(keys) : keys[i] = k
       /\ \A i, j \in 1..Len(keys) : i < j => LexLess(keys[i], keys[j])

\* the keys of a collection that holds the empty key name and a key name
\* with ":" have been listed
C29_Witness ==
    /\ last.op = "GetCollectionKeys" /\ last.status = 200
    /\ last.out = << <<>>, <<":", "a">> >>

\* C30: the two listings agree in every reachable state: for every
\* collection c, the keys that ListCollections() reports for c (none when c
\* is absent) are ListKeys(c).
C30_ListingsAgree ==
    \A c \in Names :
       (IF c \in DOMAIN GetCollections(store) THEN GetCollections(store)[c] ELSE <<>>)
          = GetCollectionKeys(store, c)

\* the key names of collection c that the result of a scan shows
ObservedKeys(op, c, result) ==
    IF op = "GetCollectionKeys" THEN {result[i] : i \in 1..Len(result)}
    ELSE IF op = "GetCollections"
    THEN IF c \in DOMAIN result THEN {result[c][i] : i \in 1..Len(result[c])} ELSE {}
    ELSE {result[i].key : i \in {j \in 1..Len(result) : result[j].collection = c}}

\* C23: DropCollection(c) is atomic for concurrent readers: with no other
\* writer active, a ListKeys(c), ListCollections() or Backup() that overlaps
\* the drop shows all of the keys that c had before the drop or none of
\* them, never some of them only.
C23_DropAllOrNone ==
    (txns.reader # <<>> /\ txns.reader[1].done
        /\ txns.reader[1].dropped # <<>> /\ txns.reader[1].clean)
       => LET r == txns.reader[1]
              d == r.dropped[1]
          IN  (r.op = "GetCollectionKeys" => r.collection = d.collection)
                 => ObservedKeys(r.op, d.collection, r.result) \in {d.keys, {}}

\* a scan overlapped the drop of a collection of two keys and returned both
\* keys, although the drop had committed before the scan returned
C23_Witness ==
    /\ txns.reader # <<>> /\ txns.reader[1].done
    /\ txns.reader[1].dropped # <<>> /\ txns.reader[1].clean
    /\ Cardinality(txns.reader[1].dropped[1].keys) = 2
    /\ ObservedKeys(txns.reader[1].op, <<"a">>, txns.reader[1].result)
          = txns.reader[1].dropped[1].keys
    /\ txns.reader[1].commits = 1
    /\ DOMAIN store = {}

\* C24: Backup() and ListCollections() are self-consistent under concurrent
\* writers: the result of a call is what the call would return on the store
\* as it was at one instant between its invocation and its return.
C24_ScanOfOneInstant ==
    (txns.reader # <<>> /\ txns.reader[1].done
        /\ txns.reader[1].op \in {"GetCollections", "Backup"})
       => \E s \in txns.reader[1].instants :
             txns.reader[1].result =
                (IF txns.reader[1].op = "Backup" THEN Backup(s) ELSE GetCollections(s))

\* a backup of two records has returned after a write changed the store
\* under it
C24_Witness ==
    /\ txns.reader # <<>> /\ txns.reader[1].done
    /\ txns.reader[1].op = "Backup"
    /\ Len(txns.reader[1].result) = 2
    /\ txns.reader[1].commits = 1
    /\ txns.reader[1].result # Backup(store)

\* C32: Restore is safe to re-run: a successful Restore of a record list
\* that follows a successful Restore of the same list leaves the store as
\* the first one left it.
C32_RestoreTwice ==
    [][(/\ last.op = "Restore" /\ last.status = 200
        /\ last'.op = "Restore" /\ last'.status = 200
        /\ last'.records = last.records)
          => /\ store' = store
             /\ Restore(store, last.records, 0).store = store]_vars

\* a list of two records for one key with different data has been restored,
\* and restoring it again would leave the store as it is
C32_Witness ==
    /\ last.op = "Restore" /\ last.status = 200
    /\ Len(last.records) = 2
    /\ last.records[1].collection = last.records[2].collection
    /\ last.records[1].key = last.records[2].key
    /\ last.records[1].data # last.records[2].data
    /\ Restore(store, last.records, 0).store = store

HeaderFields(text) ==
    StringsSplit(SubSeq(text, IndexFrom(text, "{", 1) + 1, IndexFrom(text, "}", 1) - 1), ",")

\* C34: table encoding is deterministic: the field names in the header of
\* the table are in ascending order, so every encoding of the same array of
\* objects is the same text.
C34_TableDeterministic ==
    (last.op = "JSONToTOON" /\ last.body = (UsersKey :> UsersArray)) =>
       /\ \A i \in 1..(Len(HeaderFields(last.out)) - 1) :
             LexLess(HeaderFields(last.out)[i], HeaderFields(last.out)[i + 1])
       /\ JSONToTOON(last.body) = {last.out}

\* the entry of the key starts a line of the text: `key: ` stands at the
\* start of the text or right after a newline
StartsLine(text, key) ==
    \E p \in 1..Len(text) :
       /\ HasPrefix(SubSeq(text, p, Len(text)), key \o <<":", " ">>)
       /\ (p = 1 \/ text[p - 1] = "\n")

\* C35: in the text that the encoder returns every top-level entry starts
\* on a line of its own: the rendering of each key (scalar, nested object,
\* array of scalars, empty array, table) ends with a newline before the
\* rendering of the next key begins.
C35_EntriesOnOwnLines ==
    last.op = "JSONToTOON" => \A key \in DOMAIN last.body : StartsLine(last.out, key)

\* C31: Get and Set are atomic among concurrent calls: in every
\* interleaving of Get, Set, Delete, Restore and DeleteCollection a Get of
\* (c, k) that succeeds returns one data value that a Set or a Restore wrote
\* for that composite key, and a Set does not fail because another Set to
\* the same key committed while it ran.
C31_AtomicCalls ==
    /\ (txns.reader # <<>> /\ txns.reader[1].done /\ txns.reader[1].result.err = Nil)
          => <<CompositeKey(txns.reader[1].collection, txns.reader[1].key),
               txns.reader[1].result.data>> \in txns.written
    /\ (txns.writer # <<>> /\ txns.writer[1].done) => txns.writer[1].err = Nil

\* a Set has committed although another Set to its key committed while it
\* ran, and a Get that overlapped a commit has returned data that is not
\* the data of its key now
C31_Witness ==
    /\ txns.writer # <<>> /\ txns.writer[1].done /\ txns.writer[1].err = Nil
    /\ CompositeKey(txns.writer[1].collection, txns.writer[1].key) \in txns.writer[1].sets
    /\ txns.reader # <<>> /\ txns.reader[1].done /\ txns.reader[1].result.err = Nil
    /\ txns.reader[1].commits = 1
    /\ Get(store, txns.reader[1].collection, txns.reader[1].key, FALSE)
          # txns.reader[1].result

====
